---- MODULE Spec2Model ----
(***************************************************************************)
(* Folder synchronisation script (src/source/main.py, src/replica/main.py; *)
(* the two files hold the same program).  The state is the two directory   *)
(* trees on disk, the position of the main loop, the clock, and the record *)
(* of the filesystem calls and log events of the running cycle.            *)
(***************************************************************************)
EXTENDS Integers, Sequences, FiniteSets, TLC

\* ------------------------------------------------------------------ bounds
MaxDepth == 2
MaxNodes == 4
MaxCycles == 2

\* ------------------------------------------------- the filesystem universe
Roots == {"src", "rep"}
NameOrder == <<"a", "x">>
Names == {NameOrder[i] : i \in DOMAIN NameOrder}
Contents == {<<>>, <<1>>, <<2>>}
SrcTimes == {2}
RepTimes == {0, 1, 2}
StartTime == 1 + CHOOSE t \in SrcTimes \cup RepTimes : \A u \in SrcTimes \cup RepTimes : u <= t
Root == <<>>

RECURSIVE PathsOfLen(_)
PathsOfLen(n) ==
  IF n = 0 THEN {Root}
  ELSE {Append(p, m) : p \in PathsOfLen(n - 1), m \in Names}

InitPaths == UNION {PathsOfLen(n) : n \in 1..MaxDepth}

Front(p) == SubSeq(p, 1, Len(p) - 1)
Last(p) == p[Len(p)]

\* A tree maps the relative paths that exist (the root is <<>>) to what
\* os.stat reports for them; None stands for a path that does not exist.
\* read is the read permission of the running user: listing a directory or
\* opening a file without it fails with PermissionError.
None == [kind |-> "none", data |-> <<>>, mtime |-> 0, read |-> TRUE]
Dir(m) == [kind |-> "dir", data |-> <<>>, mtime |-> m, read |-> TRUE]
File(d, m) == [kind |-> "file", data |-> d, mtime |-> m, read |-> TRUE]

VARIABLES fs, pc, exc, trace, now, cycle, interval, scanOrder, faulty,
          repAtStart, hashes, paths

vars == <<fs, pc, exc, trace, now, cycle, interval, scanOrder, faulty,
          repAtStart, hashes, paths>>

\* ------------------------------------------------------- os / os.path
Node(tree, p) == IF p \in DOMAIN tree THEN tree[p] ELSE None
Exists(tree, p) == p \in DOMAIN tree
IsFile(tree, p) == Node(tree, p).kind = "file"
IsDir(tree, p) == Node(tree, p).kind = "dir"
Put(tree, p, n) == [q \in DOMAIN tree \cup {p} |-> IF q = p THEN n ELSE tree[q]]
Del(tree, p) == [q \in DOMAIN tree \ {p} |-> tree[q]]

ScanSeq(ord) ==
  IF ord = "asc" THEN NameOrder
  ELSE [i \in DOMAIN NameOrder |-> NameOrder[Len(NameOrder) + 1 - i]]

\* os.listdir / os.scandir: the entries of directory p, in the order the
\* filesystem of that tree enumerates them
ListDir(tree, p, ord) ==
  SelectSeq(ScanSeq(ord), LAMBDA m : Exists(tree, Append(p, m)))

SubDirs(tree, p, ord) ==
  LET ns == SelectSeq(ListDir(tree, p, ord), LAMBDA m : IsDir(tree, Append(p, m)))
  IN [i \in DOMAIN ns |-> Append(p, ns[i])]

FilesIn(tree, p, ord) ==
  LET ns == SelectSeq(ListDir(tree, p, ord), LAMBDA m : IsFile(tree, Append(p, m)))
  IN [i \in DOMAIN ns |-> Append(p, ns[i])]

\* os.walk(top), top-down: the directories visited, in order.  A top that
\* is not a directory or cannot be listed yields nothing: with onerror left
\* None, os.walk swallows the error of scandir and goes on.
RECURSIVE WalkAll(_, _, _)
WalkAll(tree, ps, ord) ==
  IF ps = <<>> THEN <<>>
  ELSE LET p == Head(ps)
       IN (IF IsDir(tree, p) /\ tree[p].read
           THEN <<p>> \o WalkAll(tree, SubDirs(tree, p, ord), ord)
           ELSE <<>>)
          \o WalkAll(tree, Tail(ps), ord)

Walk(tree, ord) == WalkAll(tree, <<Root>>, ord)

RECURSIVE FilesOfDirs(_, _, _)
FilesOfDirs(tree, ds, ord) ==
  IF ds = <<>> THEN <<>>
  ELSE FilesIn(tree, Head(ds), ord) \o FilesOfDirs(tree, Tail(ds), ord)

\* "for root, dirs, files in os.walk(folder): for file in files"
WalkFiles(tree, ord) == FilesOfDirs(tree, Walk(tree, ord), ord)

\* ------------------------------------------------------ get_folder_hash
RECURSIVE ConcatData(_, _)
ConcatData(tree, fsq) ==
  IF fsq = <<>> THEN <<>>
  ELSE tree[Head(fsq)].data \o ConcatData(tree, Tail(fsq))

\* MD5 is taken as injective: the digest is identified with the byte stream
\* that hash.update() receives, the bytes of every file in os.walk order.
get_folder_hash(tree, ord) == ConcatData(tree, WalkFiles(tree, ord))

\* "with open(os.path.join(root, file), 'rb')" raises on a file without
\* read permission
HashRaises(tree, ord) ==
  /\ \E p \in DOMAIN tree : ~tree[p].read
  /\ \E p \in DOMAIN tree :
       /\ IsFile(tree, p) /\ ~tree[p].read
       /\ \E i \in DOMAIN WalkFiles(tree, ord) : WalkFiles(tree, ord)[i] = p

\* ------------------------------------------- filesystem calls that mutate
\* The running call chain: the trees, the calls and log lines so far, the
\* pending exception, the function executing, and new_files_created.
Raise(st, e) == [st EXCEPT !.exc = e]
Op(k, r, p, by) == [type |-> "op", kind |-> k, root |-> r, path |-> p, by |-> by]
Ev(k, r, p, by) == [type |-> "log", kind |-> k, root |-> r, path |-> p, by |-> by]
\* a call that was made and raised
Failed(st, k, r, p, e) ==
  Raise([st EXCEPT !.trace = Append(@, [type |-> "fail", kind |-> k, root |-> r,
                                        path |-> p, by |-> st.by])], e)

\* logging.info(...) (and the print beside it)
Log(st, k, r, p) == [st EXCEPT !.trace = Append(@, Ev(k, r, p, st.by))]

\* a call on a path of `faulty` fails with PermissionError
Denied(r, p) == r = "rep" /\ p \in faulty

\* adding or removing an entry updates the mtime of the containing directory
Touch(tree, p) ==
  IF p = Root THEN tree ELSE [tree EXCEPT ![Front(p)].mtime = now]

\* os.mkdir(p)
Mkdir(st, r, p) ==
  LET tree == st.fs[r]
  IN IF p # Root /\ ~Exists(tree, Front(p)) THEN Raise(st, "FileNotFoundError")
     ELSE IF p # Root /\ IsFile(tree, Front(p)) THEN Raise(st, "NotADirectoryError")
     ELSE IF Exists(tree, p) THEN Raise(st, "FileExistsError")
     ELSE IF Denied(r, p) THEN Raise(st, "PermissionError")
     ELSE [st EXCEPT !.fs[r] = Touch(Put(tree, p, Dir(now)), p),
                     !.trace = Append(@, Op("mkdir", r, p, st.by))]

\* os.makedirs: "try: mkdir(name) except OSError: if not exist_ok or not
\* path.isdir(name): raise", after the missing parents were made
MkdirExistOk(s, r, p) ==
  IF s.exc # "none" \/ IsDir(s.fs[r], p) THEN s ELSE Mkdir(s, r, p)

\* os.makedirs(p, exist_ok=True)
RECURSIVE Makedirs(_, _, _)
Makedirs(st, r, p) ==
  MkdirExistOk(IF p # Root /\ ~Exists(st.fs[r], Front(p))
               THEN Makedirs(st, r, Front(p))
               ELSE st,
               r, p)

\* open(dst, 'wb') and the write of the whole content, leaving mtime m
WriteFile(st, r, p, d, m) ==
  LET tree == st.fs[r]
  IN IF p # Root /\ ~Exists(tree, Front(p))
     THEN Failed(st, "copy", r, p, "FileNotFoundError")
     ELSE IF p # Root /\ IsFile(tree, Front(p))
     THEN Failed(st, "copy", r, p, "NotADirectoryError")
     ELSE IF IsDir(tree, p) THEN Raise(st, "IsADirectoryError")
     ELSE IF Denied(r, p) THEN Raise(st, "PermissionError")
     ELSE [st EXCEPT !.fs[r] = IF Exists(tree, p)
                               THEN Put(tree, p, File(d, m))
                               ELSE Touch(Put(tree, p, File(d, m)), p),
                     !.trace = Append(@, Op("copy", r, p, st.by))]

\* shutil.copy2(src, dst): into dst/basename(src) when dst is a directory;
\* copystat carries the source's modification time over
Copy2(st, sr, sp, dr, dp) ==
  LET dst == IF IsDir(st.fs[dr], dp) THEN Append(dp, Last(sp)) ELSE dp
      f == Node(st.fs[sr], sp)
  IN IF f.kind # "file" THEN Raise(st, "FileNotFoundError")
     ELSE IF ~f.read THEN Raise(st, "PermissionError")
     ELSE WriteFile(st, dr, dst, f.data, f.mtime)

\* shutil.copyfile(src, dst): content only, the copy is stamped with the
\* time of the write
CopyFile(st, sr, sp, dr, dp) ==
  LET f == Node(st.fs[sr], sp)
  IN IF f.kind # "file" THEN Raise(st, "FileNotFoundError")
     ELSE IF ~f.read THEN Raise(st, "PermissionError")
     ELSE WriteFile(st, dr, dp, f.data, now)

\* os.remove(p)
Remove(st, r, p) ==
  LET tree == st.fs[r]
  IN IF ~Exists(tree, p) THEN Raise(st, "FileNotFoundError")
     ELSE IF IsDir(tree, p) THEN Raise(st, "IsADirectoryError")
     ELSE IF Denied(r, p) THEN Raise(st, "PermissionError")
     ELSE [st EXCEPT !.fs[r] = Touch(Del(tree, p), p),
                     !.trace = Append(@, Op("remove", r, p, st.by))]

\* --------------------------------------------------------- sync_folders
Tolerance == 1

\* "os.stat(source_file).st_mtime - os.stat(replica_file).st_mtime > 1"
Stale(s, r) == s.mtime - r.mtime > Tolerance

\* str.replace(old, new) on the path of a directory below a root: every
\* occurrence of old is replaced, the leading root and every component that
\* is that string alike.  paths holds source_path and replica_path; both are
\* single path components, and so is every name.
Replace(d, old, new) == [i \in DOMAIN d |-> IF d[i] = old THEN new ELSE d[i]]

\* root.replace(source_path, replica_path)
ReplicaRoot(d) == [root |-> "rep", path |-> Replace(d, paths["src"], paths["rep"])]
\* os.path.join(replica_root, file)
ReplicaFile(f) == [root |-> ReplicaRoot(Front(f)).root,
                   path |-> Append(ReplicaRoot(Front(f)).path, Last(f))]
\* replica_root.replace(replica_path, source_path), then join(source_root, file)
SourceFile(q) ==
  [root |-> "src",
   path |-> Append(Replace(Front(q), paths["rep"], paths["src"]), Last(q))]
\* the file os.remove is called on in the second loop
RemovedFile(q) == [root |-> "rep", path |-> q]

\* "logging.info(File copied ...); new_files_created = True", reached when
\* copy2 returned
LogCopied(s, rf) ==
  IF s.exc # "none" THEN s
  ELSE [Log(s, "File copied", rf.root, rf.path) EXCEPT !.created = TRUE]

\* one source file of the first loop
SyncFileTo(st, f, rf) ==
  IF ~Exists(st.fs[rf.root], rf.path)
     \/ Stale(st.fs["src"][f], st.fs[rf.root][rf.path])
  THEN LogCopied(Copy2(st, "src", f, rf.root, rf.path), rf)
  ELSE st

SyncFile(st, f) == SyncFileTo(st, f, ReplicaFile(f))

RECURSIVE SyncFiles(_, _)
SyncFiles(st, fsq) ==
  IF fsq = <<>> \/ st.exc # "none" THEN st
  ELSE SyncFiles(SyncFile(st, Head(fsq)), Tail(fsq))

\* "for file in files" of one directory, reached when makedirs returned
SyncFilesOf(s, d) ==
  IF s.exc # "none" THEN s
  ELSE SyncFiles(s, FilesIn(s.fs["src"], d, scanOrder["src"]))

\* the first loop: one step per directory os.walk(source_path) yields
RECURSIVE SyncDirs(_, _)
SyncDirs(st, ds) ==
  IF ds = <<>> \/ st.exc # "none" THEN st
  ELSE SyncDirs(SyncFilesOf(Makedirs(st, ReplicaRoot(Head(ds)).root,
                                     ReplicaRoot(Head(ds)).path),
                            Head(ds)),
                Tail(ds))

\* "logging.info(File removed ...)", reached when os.remove returned
LogRemoved(s, rf) ==
  IF s.exc # "none" THEN s ELSE Log(s, "File removed", rf.root, rf.path)

\* one replica file of the second loop
PruneFile(st, q) ==
  IF ~Exists(st.fs[SourceFile(q).root], SourceFile(q).path)
  THEN LogRemoved(Remove(st, RemovedFile(q).root, RemovedFile(q).path),
                  RemovedFile(q))
  ELSE st

RECURSIVE PruneFiles(_, _)
PruneFiles(st, fsq) ==
  IF fsq = <<>> \/ st.exc # "none" THEN st
  ELSE PruneFiles(PruneFile(st, Head(fsq)), Tail(fsq))

\* the second loop: one step per directory os.walk(replica_path) yields
RECURSIVE PruneDirs(_, _)
PruneDirs(st, ds) ==
  IF ds = <<>> \/ st.exc # "none" THEN st
  ELSE PruneDirs(PruneFiles(st, FilesIn(st.fs["rep"], Head(ds), scanOrder["rep"])),
                 Tail(ds))

\* lines 44-58
CopyLoop(s) == SyncDirs(s, Walk(s.fs["src"], scanOrder["src"]))
\* lines 60-70
PruneLoop(s) ==
  IF s.exc # "none" THEN s
  ELSE PruneDirs(s, Walk(s.fs["rep"], scanOrder["rep"]))
\* lines 72-76
SyncComplete(s) ==
  IF s.exc = "none" /\ s.created THEN Log(s, "Sync complete", "rep", Root) ELSE s

sync_folders(st) ==
  [SyncComplete(PruneLoop(CopyLoop([st EXCEPT !.by = "sync_folders",
                                              !.created = FALSE])))
     EXCEPT !.by = st.by]

\* ------------------------------------------------------ check_for_events
\* the event a top-level source file raises: new, modified or none
SourceEvent(st, p) ==
  IF ~Exists(st.fs["rep"], p) THEN "New file created"
  ELSE IF st.fs["src"][p].mtime > st.fs["rep"][p].mtime THEN "File modified"
  ELSE "none"

RECURSIVE LogSourceEvents(_, _)
LogSourceEvents(st, fsq) ==
  IF fsq = <<>> THEN st
  ELSE LogSourceEvents(IF SourceEvent(st, Head(fsq)) = "none" THEN st
                       ELSE Log(st, SourceEvent(st, Head(fsq)), "src", Head(fsq)),
                       Tail(fsq))

\* events['new_file'] or events['file_modified']
SourceEvents(st) ==
  SelectSeq(FilesIn(st.fs["src"], Root, scanOrder["src"]),
            LAMBDA p : SourceEvent(st, p) # "none")
\* events['file_removed']
RemovedEvents(st) ==
  SelectSeq(FilesIn(st.fs["rep"], Root, scanOrder["rep"]),
            LAMBDA p : ~Exists(st.fs["src"], p))

\* "logging.info(Source hash ...)", reached when sync_folders returned
LogSourceHash(s) ==
  IF s.exc # "none" THEN s
  ELSE IF HashRaises(s.fs["src"], scanOrder["src"]) THEN Raise(s, "PermissionError")
  ELSE Log(s, "Source hash", "src", Root)

\* lines 144-148; s is the call chain after the two listing loops
SyncOnEvents(s, any) == IF any THEN LogSourceHash(sync_folders(s)) ELSE s

check_for_events(st) ==
  IF ~IsDir(st.fs["src"], Root) THEN Raise(st, "FileNotFoundError")
  ELSE IF ~IsDir(st.fs["rep"], Root) THEN Raise(st, "FileNotFoundError")
  ELSE SyncOnEvents(LogSourceEvents(st, FilesIn(st.fs["src"], Root, scanOrder["src"])),
                    SourceEvents(st) # <<>> \/ RemovedEvents(st) # <<>>)

\* ------------------------------------------- __main__: hash-mismatch pass
\* the join made on source_path in place of replica_path
MainReplicaFileInSource(f) == [root |-> "src", path |-> f]

\* os.path.join(replica_path, os.path.relpath(source_file, source_path))
MainReplicaFile(f) == [root |-> "rep", path |-> f]

\* "if os.path.exists(replica_file): os.remove(replica_file)"
RemoveOld(s, rf) ==
  IF Exists(s.fs[rf.root], rf.path) THEN Remove(s, rf.root, rf.path) ELSE s
\* "os.makedirs(os.path.dirname(replica_file), exist_ok=True)"
MakeParent(s, rf) ==
  IF s.exc # "none" THEN s ELSE Makedirs(s, rf.root, Front(rf.path))
\* "shutil.copyfile(source_file, replica_file)"
CopyOver(s, f, rf) ==
  IF s.exc # "none" THEN s ELSE CopyFile(s, "src", f, rf.root, rf.path)

\* the copy made before the parent directory
MainFileCopyFirst(st, f) ==
  MakeParent(CopyOver(RemoveOld(st, MainReplicaFile(f)), f, MainReplicaFile(f)),
             MainReplicaFile(f))

\* one source file of the pass, lines 204-209
MainFile(st, f) ==
  CopyOver(MakeParent(RemoveOld(st, MainReplicaFile(f)), MainReplicaFile(f)),
           f, MainReplicaFile(f))

RECURSIVE MainFiles(_, _)
MainFiles(st, fsq) ==
  IF fsq = <<>> \/ st.exc # "none" THEN st
  ELSE MainFiles(MainFile(st, Head(fsq)), Tail(fsq))

\* the pass entered whatever the comparison gives
HashMismatchAlways(st) == TRUE

\* "if source_hash != replica_hash"
HashMismatch(st) ==
  get_folder_hash(st.fs["src"], scanOrder["src"])
    # get_folder_hash(st.fs["rep"], scanOrder["rep"])

\* "logging.info(Folders synchronized ...)" at the end of the iteration
LogSynchronized(s) ==
  IF s.exc # "none" THEN s ELSE Log(s, "Folders synchronized", "rep", Root)

main_pass(st) ==
  LogSynchronized(IF \E r \in Roots : HashRaises(st.fs[r], scanOrder[r])
                  THEN Raise(st, "PermissionError")
                  ELSE IF HashMismatch(st)
                  THEN MainFiles(st, WalkFiles(st.fs["src"], scanOrder["src"]))
                  ELSE st)

\* ----------------------------------------------------------- the actions
Frame(by) == [fs |-> fs, trace |-> <<>>, exc |-> "none", by |-> by, created |-> FALSE]

\* what a call chain leaves behind
Returns(st, ok) ==
  /\ fs' = st.fs
  /\ exc' = st.exc
  /\ pc' = IF st.exc = "none" THEN ok ELSE "aborted"

\* the interval check before the loop
Start ==
  /\ pc = "start"
  /\ IF interval = 0
     THEN pc' = "aborted" /\ exc' = "ValueError"
     ELSE pc' = "check" /\ exc' = exc
  /\ UNCHANGED <<fs, trace, now, cycle, interval, scanOrder, faulty, repAtStart,
                 hashes, paths>>

\* check_for_events(source_path, replica_path), sync_folders included
CheckForEvents ==
  /\ pc = "check"
  /\ \E st \in {check_for_events(Frame("check_for_events"))} :
       Returns(st, "hash") /\ trace' = st.trace
  /\ repAtStart' = fs["rep"]
  /\ UNCHANGED <<now, cycle, interval, scanOrder, faulty, hashes, paths>>

\* the two get_folder_hash calls, the recopy pass and the final log line
HashMismatchPass ==
  /\ pc = "hash"
  /\ \E st \in {main_pass(Frame("main"))} :
       Returns(st, "sleep") /\ trace' = trace \o st.trace
  /\ hashes' = [src |-> get_folder_hash(fs["src"], scanOrder["src"]),
                rep |-> get_folder_hash(fs["rep"], scanOrder["rep"])]
  /\ UNCHANGED <<now, cycle, interval, scanOrder, faulty, repAtStart, paths>>

\* time.sleep(interval), then the next iteration
Sleep ==
  /\ pc = "sleep"
  /\ cycle < MaxCycles
  /\ IF interval < 0
     THEN pc' = "aborted" /\ exc' = "ValueError" /\ UNCHANGED <<now, cycle>>
     ELSE pc' = "check" /\ exc' = exc /\ now' = now + interval /\ cycle' = cycle + 1
  /\ UNCHANGED <<fs, trace, interval, scanOrder, faulty, repAtStart, hashes, paths>>

Next == Start \/ CheckForEvents \/ HashMismatchPass \/ Sleep

\* ------------------------------------------------------ the initial trees
PrefixClosed(S) == \A p \in S : Len(p) = 1 \/ Front(p) \in S
Shapes == {S \in SUBSET InitPaths : Cardinality(S) <= MaxNodes /\ PrefixClosed(S)}
Leaves(S) == {p \in S : \A m \in Names : Append(p, m) \notin S}
OldestTime == CHOOSE t \in RepTimes : \A u \in RepTimes : t <= u
SrcLeaf == {Dir(OldestTime)} \cup {File(d, m) : d \in Contents, m \in SrcTimes}
RepLeaf == {Dir(OldestTime), Dir(StartTime - 1)}
             \cup {File(d, m) : d \in Contents, m \in RepTimes}
TreeOf(S, leaf) ==
  [p \in S \cup {Root} |-> IF p \in Leaves(S) THEN leaf[p] ELSE Dir(OldestTime)]
\* a root directory that does not exist
NoTree == [p \in {} |-> None]
Orders == {"asc", "desc"}

InitTrees ==
  \E S1 \in Shapes, S2 \in Shapes :
    /\ Cardinality(S1) + Cardinality(S2) <= MaxNodes
    /\ \E l1 \in [Leaves(S1) -> SrcLeaf] :
         \/ \E l2 \in [Leaves(S2) -> RepLeaf] :
              fs = [src |-> TreeOf(S1, l1), rep |-> TreeOf(S2, l2)]
         \/ S2 = {} /\ fs = [src |-> TreeOf(S1, l1), rep |-> NoTree]

\* source_path and replica_path as given on the command line; in the main
\* specification no name in either tree contains one of them
RootPaths == [src |-> "source", rep |-> "replica"]

InitRest ==
  /\ pc = "start"
  /\ paths = RootPaths
  /\ exc = "none"
  /\ trace = <<>>
  /\ now = StartTime
  /\ cycle = 0
  /\ interval = 1
  /\ repAtStart = fs["rep"]
  /\ hashes = [src |-> <<>>, rep |-> <<>>]

Init ==
  /\ InitTrees
  /\ scanOrder = [r \in Roots |-> "asc"]
  /\ faulty = {}
  /\ InitRest

Spec == Init /\ [][Next]_vars

\* the same, with a replica filesystem that may enumerate the entries of a
\* directory in the other order than the source's
InitOrder ==
  /\ InitTrees
  /\ scanOrder \in {o \in [Roots -> Orders] : o["src"] = "asc"}
  /\ faulty = {}
  /\ InitRest

SpecOrder == InitOrder /\ [][Next]_vars

\* a second specification: one replica path on which every call fails
FaultPaths == PathsOfLen(1)
InitFault ==
  /\ InitTrees
  /\ scanOrder = [r \in Roots |-> "asc"]
  /\ faulty \in {{p} : p \in FaultPaths}
  /\ InitRest

SpecFault == InitFault /\ [][Next]_vars

\* a third specification: the interval argument ranges over the integers
\* argparse accepts (type=int), negative and zero included
Intervals == {-1, 0, 1}
InitInterval ==
  /\ InitTrees
  /\ pc = "start"
  /\ exc = "none"
  /\ trace = <<>>
  /\ now = StartTime
  /\ cycle = 0
  /\ interval \in Intervals
  /\ repAtStart = fs["rep"]
  /\ hashes = [src |-> <<>>, rep |-> <<>>]
  /\ scanOrder = [r \in Roots |-> "asc"]
  /\ faulty = {}
  /\ paths = RootPaths

SpecInterval == InitInterval /\ [][Next]_vars

\* a fourth specification: the two roots are relative paths of one
\* component, and entries below the roots may bear the same names
NamedRoots == {p \in [Roots -> Names] : p["src"] # p["rep"]}
InitNamedRoots ==
  /\ InitTrees
  /\ pc = "start"
  /\ exc = "none"
  /\ trace = <<>>
  /\ now = StartTime
  /\ cycle = 0
  /\ interval = 1
  /\ repAtStart = fs["rep"]
  /\ hashes = [src |-> <<>>, rep |-> <<>>]
  /\ scanOrder = [r \in Roots |-> "asc"]
  /\ faulty = {}
  /\ paths \in NamedRoots

SpecNamedRoots == InitNamedRoots /\ [][Next]_vars

\* a fifth specification: one entry below the source root has no read
\* permission for the running user
Unreadable(tree, p) == [tree EXCEPT ![p].read = FALSE]
InitUnreadable ==
  /\ \E S1 \in Shapes, S2 \in Shapes :
       /\ Cardinality(S1) + Cardinality(S2) <= MaxNodes
       /\ \E l1 \in [Leaves(S1) -> SrcLeaf], l2 \in [Leaves(S2) -> RepLeaf], p \in S1 :
            fs = [src |-> Unreadable(TreeOf(S1, l1), p), rep |-> TreeOf(S2, l2)]
  /\ scanOrder = [r \in Roots |-> "asc"]
  /\ faulty = {}
  /\ InitRest

SpecUnreadable == InitUnreadable /\ [][Next]_vars

\* ------------------------------------------------------------ the claims
CycleDone == pc = "sleep"
Ops == SelectSeq(trace, LAMBDA e : e.type = "op")
OpsBy(by) == SelectSeq(trace, LAMBDA e : e.type = "op" /\ e.by = by)
SameFiles(s, r) ==
  \A p \in DOMAIN s : IsFile(s, p) => IsFile(r, p) /\ r[p].data = s[p].data

\* C1 (convergence): a completed cycle that started with an existing replica
\* root leaves get_folder_hash(source) equal to get_folder_hash(replica)
\* (stated for the case where both trees enumerate in the same order).
C1_Convergence ==
  (CycleDone /\ IsDir(repAtStart, Root) /\ scanOrder["src"] = scanOrder["rep"])
    => get_folder_hash(fs["src"], scanOrder["src"])
         = get_folder_hash(fs["rep"], scanOrder["rep"])

\* C2 (file mirroring): after a completed cycle every source file is a
\* replica file at the same relative path with the same bytes.
C2_FileMirroring ==
  (CycleDone /\ IsDir(repAtStart, Root)) => SameFiles(fs["src"], fs["rep"])

\* C3 (deletion completeness): every file or directory the replica held at
\* the start of a cycle and the source does not hold is gone from the
\* replica when the cycle is done.
C3_DeletionCompleteness ==
  CycleDone =>
    \A p \in DOMAIN repAtStart : ~Exists(fs["src"], p) => ~Exists(fs["rep"], p)

\* C4 (idempotence): a cycle that follows a completed cycle performs no
\* mutating filesystem call (stated for trees that enumerate alike).
C4_Idempotence ==
  (cycle >= 1 /\ pc \in {"hash", "sleep"} /\ scanOrder["src"] = scanOrder["rep"])
    => Ops = <<>>

\* a replica file that exists and is within the tolerance of its source file
WithinTolerance(p) ==
  /\ IsFile(fs["src"], p)
  /\ IsFile(repAtStart, p)
  /\ fs["src"][p].mtime - repAtStart[p].mtime <= Tolerance
Touches(e) == e.type = "op" /\ e.root = "rep" /\ e.kind \in {"copy", "remove"}

\* C5 (staleness tolerance): no call of a cycle removes or writes a replica
\* file that exists and is within the tolerance of its source file.
C5_StalenessTolerance ==
  \A i \in DOMAIN trace : Touches(trace[i]) => ~WithinTolerance(trace[i].path)

\* C6 (bootstrap): a cycle that starts without a replica root does not
\* fail, creates the root and fills it to match the source.
C6_Bootstrap ==
  (~Exists(repAtStart, Root) /\ pc \notin {"start", "check"})
    => /\ pc # "aborted"
       /\ CycleDone => (IsDir(fs["rep"], Root) /\ SameFiles(fs["src"], fs["rep"]))

\* C7 (one-way mirroring): no step changes the source tree, and every
\* makedirs, copy and remove of a cycle has its target under the replica.
C7_SourceUntouched ==
  /\ fs["src"]' = fs["src"]
  /\ \A i \in DOMAIN trace' : trace'[i].type = "op" => trace'[i].root = "rep"
LogKind(k) ==
  IF k = "copy" THEN "File copied"
  ELSE IF k = "remove" THEN "File removed"
  ELSE "Directory created"
LogsOf(e) ==
  {j \in DOMAIN trace : /\ trace[j].type = "log"
                        /\ trace[j].kind = LogKind(e.kind)
                        /\ trace[j].path = e.path}
OpsLike(e) ==
  {j \in DOMAIN trace : /\ trace[j].type = "op"
                        /\ trace[j].kind = e.kind
                        /\ trace[j].path = e.path}
C8_LoggingComplete ==
  \A i \in DOMAIN trace :
    trace[i].type = "op" =>
      /\ LogsOf(trace[i]) \cap {i - 1, i + 1} # {}
      /\ Cardinality(LogsOf(trace[i])) = Cardinality(OpsLike(trace[i]))

\* C9 (failure isolation): a copy or remove that fails does not abort the
\* process; the cycle goes on to its end.
C9_FailureIsolation == ~(pc = "aborted" /\ exc = "PermissionError")

\* C10 (directory mirroring): a source directory the replica lacked at the
\* start of a cycle is a replica directory when the cycle is done.
C10_DirectoryMirroring ==
  (CycleDone /\ IsDir(repAtStart, Root)) =>
    \A p \in DOMAIN fs["src"] : (IsDir(fs["src"], p) /\ ~Exists(repAtStart, p))
                                    => IsDir(fs["rep"], p)

\* C11 (interval validation): under an interval that is not greater than 0
\* the program never enters a synchronization cycle and performs no
\* filesystem mutation; it only stops with the error.
C11_IntervalValidation ==
  interval <= 0 =>
    /\ pc \in {"start", "aborted"}
    /\ Ops = <<>>
    /\ fs["rep"] = repAtStart

C13_TimestampPreserved ==
  \A i \in DOMAIN trace :
    (/\ trace[i].type = "op"
     /\ trace[i].kind = "copy"
     /\ IsFile(fs["src"], trace[i].path)
     /\ IsFile(fs["rep"], trace[i].path))
      => fs["rep"][trace[i].path].mtime = fs["src"][trace[i].path].mtime

\* C14 (dependency-safe ordering): no copy is attempted into a directory
\* that does not exist, and whenever a file is copied to a replica path its
\* parent directory existed at the start of the cycle or was created earlier
\* in the same cycle.
C14_ParentBeforeCopy ==
  \A i \in DOMAIN trace :
    /\ ~(trace[i].type = "fail" /\ trace[i].kind = "copy")
    /\ (trace[i].type = "op" /\ trace[i].kind = "copy") =>
         \/ IsDir(repAtStart, Front(trace[i].path))
         \/ \E j \in 1..(i - 1) :
              trace[j] = Op("mkdir", "rep", Front(trace[i].path), trace[j].by)

\* a completed cycle that copied a file into a directory the replica did
\* not have when the cycle started
C14_Witness ==
  /\ CycleDone
  /\ \E i \in DOMAIN trace :
       /\ trace[i].type = "op" /\ trace[i].kind = "copy"
       /\ Len(trace[i].path) = 2
       /\ ~Exists(repAtStart, Front(trace[i].path))

\* the same set of relative file paths, with the same bytes in each file
FilePaths(tree) == {p \in DOMAIN tree : IsFile(tree, p)}
ContentIdentical(s, r) ==
  /\ FilePaths(s) = FilePaths(r)
  /\ \A p \in FilePaths(s) : s[p].data = r[p].data

\* C15 (digest soundness): when the two digests a cycle computed are equal,
\* the two trees are content-identical.  (With equal digests the pass is
\* skipped, so the trees at the end of the cycle are the trees hashed.)
C15_DigestSound ==
  (CycleDone /\ hashes["src"] = hashes["rep"])
    => ContentIdentical(fs["src"], fs["rep"])

\* C16 (digest determinism): when the two trees are content-identical the
\* two digests the cycle computes are equal, however each tree's directory
\* entries are enumerated.
C16_DigestDeterministic ==
  [][(pc = "hash" /\ ContentIdentical(fs["src"], fs["rep"]))
       => hashes["src"]' = hashes["rep"]']_vars

\* C17 (path mapping preserves relative paths): sync_folders creates a
\* replica directory only at the relative path of a source directory and
\* removes a replica file only when the source holds nothing at the same
\* relative path, whatever the root path strings and the names are.
C17_PathMapping ==
  \A i \in DOMAIN trace :
    (trace[i].type = "op" /\ trace[i].by = "sync_folders") =>
      /\ trace[i].kind = "mkdir" => IsDir(fs["src"], trace[i].path)
      /\ trace[i].kind = "remove" => ~Exists(fs["src"], trace[i].path)

\* C19 (kind conflicts do not abort the loop): with both roots in place and
\* every entry readable and writable, no cycle ends in an unhandled
\* exception, also when a path is a directory in one tree and a file in the
\* other.
C19_KindConflictsSurvive == IsDir(repAtStart, Root) => pc # "aborted"

\* C18 (unreadable entries are surfaced): an entry that cannot be read does
\* not abort the cycle, and a cycle that reaches its end has recorded a
\* warning for every entry it could not read.
Warned(p) ==
  \E i \in DOMAIN trace :
    trace[i].type = "log" /\ trace[i].kind = "Unreadable entry" /\ trace[i].path = p
C18_UnreadableSurfaced ==
  /\ exc # "PermissionError"
  /\ CycleDone => \A p \in DOMAIN fs["src"] : ~fs["src"][p].read => Warned(p)

====
